---- MODULE Spec2Model ----
(***************************************************************************)
(* Model of the serialization core of v-individual-model:                  *)
(*   - onto/turtle_formatters_with_prefixes.rs  (Turtle formatter, escape) *)
(*   - onto/parser.rs                           (raw format dispatch)      *)
(*   - onto/individual2json.rs                  (JSON encoding)            *)
(* Text is modelled as a sequence of one-character strings, so that        *)
(* prefixes, escaping and concatenation are computed, not assumed.         *)
(***************************************************************************)
EXTENDS Integers, Sequences, FiniteSets, TLC

VARIABLES
    \* ---- TurtleFormatterWithPrefixes<W> and its sink
    out,                    \* the characters the sink W has accepted so far
    sinkCap,                \* capacity of the sink; Unlimited = never fails
    current_subject,        \* field current_subject
    current_subject_type,   \* field current_subject_type: None | NamedNode | BlankNode
    current_predicate,      \* field current_predicate
    fmtPhase,               \* "live" while the formatter exists, "finished" once finish(self) consumed it
    fmtRes,                 \* result of the last call on the formatter
    fed,                    \* history: the triples format has written (calls that returned Ok), in order
    nFormat,                \* history: number of format calls made
    ioFailed,               \* history: some write to the sink has failed
    prefixCalls,            \* history: number of prefix blocks requested (new included)
    \* ---- parser.rs
    inds,                   \* the Individuals: raw.data, raw.raw_type, obj.uri
    pcall,                  \* the last parser call: operation, target, decoder called, results
    prev,                   \* the parser call before it
    \* ---- escape / EscapeRDF
    escIn,                  \* the literal text being escaped
    escPos,                 \* number of source characters flat_map has consumed
    escState,               \* state of the current EscapeRDF iterator
    escOut,                 \* the characters yielded so far
    \* ---- individual2json.rs
    jsIn,                   \* the Resource being serialized
    jsInd,                  \* the IndividualObj being serialized
    jsOut,                  \* the JSON produced ("none" before serialization)
    overflow_checks,        \* build profile: integer overflow panics (TRUE) or wraps (FALSE)
    preserve_order          \* build feature of serde_json: a Map keeps insertion order (TRUE)
                            \* or is sorted by key (FALSE)

fmtVars == <<out, sinkCap, current_subject, current_subject_type, current_predicate,
             fmtPhase, fmtRes, fed, nFormat, ioFailed, prefixCalls>>
parseVars == <<inds, pcall, prev>>
escVars == <<escIn, escPos, escState, escOut>>
jsonVars == <<jsIn, jsInd, jsOut, overflow_checks, preserve_order>>
vars == <<fmtVars, parseVars, escVars, jsonVars>>

----------------------------------------------------------------------------
(* Bounds                                                                  *)

MaxTriples == 3         \* format calls per formatter
MaxStream == 4          \* format calls per formatter on a fresh, never-failing sink
MaxPrefixCalls == 1     \* prefix blocks per formatter
MaxPrefixAt == 1        \* a prefix block is requested after at most this many format calls
MaxCap == 16            \* largest finite sink capacity tried
MaxLen == 3             \* longest literal text escaped
MaxPredicates == 2      \* predicates per Individual
MaxObjects == 2         \* format calls per formatter when the object terms are varied
Unlimited == -1         \* sinkCap of a sink that never fails

----------------------------------------------------------------------------
(* Text helpers                                                            *)

StartsWith(s, p) == Len(s) >= Len(p) /\ SubSeq(s, 1, Len(p)) = p

HTTP == <<"h", "t", "t", "p", ":", "/", "/">>

RECURSIVE Concat(_)
Concat(ss) == IF ss = <<>> THEN <<>> ELSE Head(ss) \o Concat(Tail(ss))

----------------------------------------------------------------------------
(* escape / EscapeRDF                                                      *)

\* EscapeRDF::new : the iterator state for one source character
EscapeRDF_new_NoBackslash(c) ==
    CASE c = "\n" -> [tag |-> "Backslash", c |-> "n"]
      [] c = "\r" -> [tag |-> "Backslash", c |-> "r"]
      [] c = "\"" -> [tag |-> "Backslash", c |-> "\""]
      [] OTHER    -> [tag |-> "Char", c |-> c]

EscapeRDF_new(c) ==
    CASE c = "\n" -> [tag |-> "Backslash", c |-> "n"]
      [] c = "\r" -> [tag |-> "Backslash", c |-> "r"]
      [] c = "\"" -> [tag |-> "Backslash", c |-> "\""]
      [] c = "\\" -> [tag |-> "Backslash", c |-> "\\"]
      [] OTHER    -> [tag |-> "Char", c |-> c]

EscapeDone == [tag |-> "Done", c |-> ""]

\* Iterator::next for EscapeRDF : the new state and the item (<<>> for None)
EscapeRDF_next(st) ==
    CASE st.tag = "Backslash" -> [state |-> [tag |-> "Char", c |-> st.c], item |-> <<"\\">>]
      [] st.tag = "Char"      -> [state |-> EscapeDone, item |-> <<st.c>>]
      [] OTHER                -> [state |-> EscapeDone, item |-> <<>>]

\* ExactSizeIterator::len
EscapeRDF_len(st) ==
    CASE st.tag = "Done" -> 0
      [] st.tag = "Char" -> 1
      [] OTHER           -> 2

RECURSIVE Drain(_)
Drain(st) ==
    LET r == EscapeRDF_next(st)
    IN  IF r.item = <<>> THEN <<>> ELSE r.item \o Drain(r.state)

\* escape : s.chars().flat_map(EscapeRDF::new), collected
RECURSIVE escape(_)
escape(s) == IF s = <<>> THEN <<>> ELSE Drain(EscapeRDF_new(Head(s))) \o escape(Tail(s))

----------------------------------------------------------------------------
(* The output sink W: Write.  A sink of capacity cap accepts characters    *)
(* until it is full and fails the write that does not fit, keeping the     *)
(* part that did (the behaviour of a fixed-size buffer); Unlimited never   *)
(* fails.                                                                  *)

SinkWrite(w, cap, s) ==
    IF ~w.ok THEN w
    ELSE IF cap = Unlimited \/ Len(w.out) + Len(s) <= cap
         THEN [out |-> w.out \o s, ok |-> TRUE]
         ELSE [out |-> w.out \o SubSeq(s, 1, cap - Len(w.out)), ok |-> FALSE]

\* a run of writes joined by `?`: the first failure ends the run
RECURSIVE WritePieces(_, _, _)
WritePieces(w, cap, pieces) ==
    IF pieces = <<>> \/ ~w.ok THEN w
    ELSE WritePieces(SinkWrite(w, cap, Head(pieces)), cap, Tail(pieces))

----------------------------------------------------------------------------
(* RDF terms (rio_api::model)                                              *)

NamedNode(t) == [kind |-> "NamedNode", text |-> t, tag |-> <<>>]
BlankNode(t) == [kind |-> "BlankNode", text |-> t, tag |-> <<>>]
SimpleLiteral(v) == [kind |-> "Simple", text |-> v, tag |-> <<>>]
LanguageTaggedString(v, l) == [kind |-> "LanguageTaggedString", text |-> v, tag |-> l]
TypedLiteral(v, d) == [kind |-> "Typed", text |-> v, tag |-> d]

Triple(s, p, o) == [subject |-> s, predicate |-> p, object |-> o]

\* iri::<UriSpec>(text).is_ok(): a scheme that starts with a letter, then ':',
\* and no character an IRI cannot hold
IriForbidden == {" ", "\"", "\\", "\n", "\r", "<", ">"}
IriLetters == {"a", "b", "c", "d", "e", "h", "o", "p", "t", "x"}
IsValidIri(t) ==
    /\ \A i \in 1..Len(t) : t[i] \notin IriForbidden
    /\ \E i \in 2..Len(t) :
          /\ t[i] = ":"
          /\ t[1] \in IriLetters
          /\ \A j \in 1..(i - 1) : t[j] \in IriLetters

\* fmt_object : the pieces written for an object term, in order
fmt_object_pieces_SchemeFirst(o) ==
    CASE o.kind = "NamedNode" ->
            IF StartsWith(o.text, HTTP)
            THEN << <<"<">>, o.text, <<">">> >>
            ELSE IF IsValidIri(o.text)
                 THEN << o.text >>
                 ELSE << <<"\"">>, escape(o.text), <<"\"">> >>
      [] o.kind = "BlankNode" -> << o.text >>
      [] o.kind = "Simple" -> << <<"\"">>, escape(o.text), <<"\"">> >>
      [] o.kind = "LanguageTaggedString" ->
            << <<"\"">>, escape(o.text), <<"\"", "@">>, o.tag >>
      [] OTHER ->
            << <<"\"">>, escape(o.text), <<"\"", "^", "^">>, o.tag >>

fmt_object_pieces(o) ==
    CASE o.kind = "NamedNode" ->
            IF IsValidIri(o.text)
            THEN IF StartsWith(o.text, HTTP)
                 THEN << <<"<">>, o.text, <<">">> >>
                 ELSE << o.text >>
            ELSE << <<"\"">>, escape(o.text), <<"\"">> >>
      [] o.kind = "BlankNode" -> << o.text >>
      [] o.kind = "Simple" -> << <<"\"">>, escape(o.text), <<"\"">> >>
      [] o.kind = "LanguageTaggedString" ->
            << <<"\"">>, escape(o.text), <<"\"", "@">>, o.tag >>
      [] OTHER ->
            << <<"\"">>, escape(o.text), <<"\"", "^", "^">>, o.tag >>

fmt_object(o, w, cap) == WritePieces(w, cap, fmt_object_pieces(o))

----------------------------------------------------------------------------
(* TurtleFormatterWithPrefixes                                             *)

None == "None"

SubjectOpen(s, p) == << <<"<">>, s, <<">", " ", "\n", " ", " ">>, p, <<" ">> >>
SubjectBare(s, p) == << s, <<" ", "\n", " ", " ">>, p, <<" ">> >>
Terminator == <<" ", ".", "\n", "\n">>

\* what format writes before the object (lines 91-108)
format_head_PredicateFirst(cst, cs, cp, t) ==
    LET sbj == t.subject.text
        p   == t.predicate
    IN  IF cst # None
        THEN IF cp = p THEN << <<",", " ">> >>
             ELSE IF [kind |-> cst, text |-> cs] = [kind |-> t.subject.kind, text |-> sbj]
             THEN << <<" ", ";", "\n", " ", " ">>, p, <<" ">> >>
             ELSE IF StartsWith(sbj, HTTP)
                  THEN <<Terminator>> \o SubjectOpen(sbj, p)
                  ELSE <<Terminator>> \o SubjectBare(sbj, p)
        ELSE IF StartsWith(sbj, HTTP) THEN SubjectOpen(sbj, p)
             ELSE SubjectBare(sbj, p)

format_head_NoTerminator(cst, cs, cp, t) ==
    LET sbj == t.subject.text
        p   == t.predicate
    IN  IF cst # None
        THEN IF [kind |-> cst, text |-> cs] = [kind |-> t.subject.kind, text |-> sbj]
             THEN IF cp = p THEN << <<",", " ">> >>
                  ELSE << <<" ", ";", "\n", " ", " ">>, p, <<" ">> >>
             ELSE IF StartsWith(sbj, HTTP)
                  THEN SubjectOpen(sbj, p)
                  ELSE SubjectBare(sbj, p)
        ELSE IF StartsWith(sbj, HTTP) THEN SubjectOpen(sbj, p)
             ELSE SubjectBare(sbj, p)

format_head_NoKind(cst, cs, cp, t) ==
    LET sbj == t.subject.text
        p   == t.predicate
    IN  IF cst # None
        THEN IF cs = sbj
             THEN IF cp = p THEN << <<",", " ">> >>
                  ELSE << <<" ", ";", "\n", " ", " ">>, p, <<" ">> >>
             ELSE IF StartsWith(sbj, HTTP)
                  THEN <<Terminator>> \o SubjectOpen(sbj, p)
                  ELSE <<Terminator>> \o SubjectBare(sbj, p)
        ELSE IF StartsWith(sbj, HTTP) THEN SubjectOpen(sbj, p)
             ELSE SubjectBare(sbj, p)

format_head_AlwaysSemicolon(cst, cs, cp, t) ==
    LET sbj == t.subject.text
        p   == t.predicate
    IN  IF cst # None
        THEN IF [kind |-> cst, text |-> cs] = [kind |-> t.subject.kind, text |-> sbj]
             THEN << <<" ", ";", "\n", " ", " ">>, p, <<" ">> >>
             ELSE IF StartsWith(sbj, HTTP)
                  THEN <<Terminator>> \o SubjectOpen(sbj, p)
                  ELSE <<Terminator>> \o SubjectBare(sbj, p)
        ELSE IF StartsWith(sbj, HTTP) THEN SubjectOpen(sbj, p)
             ELSE SubjectBare(sbj, p)

format_head(cst, cs, cp, t) ==
    LET sbj == t.subject.text
        p   == t.predicate
    IN  IF cst # None
        THEN IF [kind |-> cst, text |-> cs] = [kind |-> t.subject.kind, text |-> sbj]
             THEN IF cp = p THEN << <<",", " ">> >>
                  ELSE << <<" ", ";", "\n", " ", " ">>, p, <<" ">> >>
             ELSE IF StartsWith(sbj, HTTP)
                  THEN <<Terminator>> \o SubjectOpen(sbj, p)
                  ELSE <<Terminator>> \o SubjectBare(sbj, p)
        ELSE IF StartsWith(sbj, HTTP) THEN SubjectOpen(sbj, p)
             ELSE SubjectBare(sbj, p)

\* the sorted keys of a prefix map (keys.sort() on Strings: byte order)
ByteOrder == <<"1", ":", "@", "a", "b", "c", "d", "e", "g", "l", "n", "p", "t", "y">>
Code(c) == CHOOSE i \in 1..Len(ByteOrder) : ByteOrder[i] = c
RECURSIVE LexLess(_, _)
LexLess(a, b) ==
    IF a = <<>> THEN b # <<>>
    ELSE IF b = <<>> THEN FALSE
    ELSE IF Head(a) = Head(b) THEN LexLess(Tail(a), Tail(b))
    ELSE Code(Head(a)) < Code(Head(b))

RECURSIVE SortedKeys(_)
SortedKeys(K) ==
    IF K = {} THEN <<>>
    ELSE LET m == CHOOSE k \in K : \A j \in K \ {k} : LexLess(k, j)
         IN  <<m>> \o SortedKeys(K \ {m})

AtPrefix == <<"@", "p", "r", "e", "f", "i", "x", " ">>
QueryPrefix == <<"P", "R", "E", "F", "I", "X", " ">>

RECURSIVE PrefixLines(_, _, _)
PrefixLines(keys, m, query) ==
    IF keys = <<>> THEN <<>>
    ELSE (IF query
          THEN << QueryPrefix, Head(keys), <<":", " ", "<">>, m[Head(keys)], <<">", "\n">> >>
          ELSE << AtPrefix, Head(keys), <<":", " ", "<">>, m[Head(keys)], <<">", " ", ".", "\n">> >>)
         \o PrefixLines(Tail(keys), m, query)

\* write_prefixes / write_query_prefixes : the lines, then writeln!()
write_prefixes(w, cap, m) ==
    WritePieces(w, cap, PrefixLines(SortedKeys(DOMAIN m), m, FALSE) \o << <<"\n">> >>)
write_query_prefixes(w, cap, m) ==
    WritePieces(w, cap, PrefixLines(SortedKeys(DOMAIN m), m, TRUE) \o << <<"\n">> >>)

----------------------------------------------------------------------------
(* Inputs of the formatter                                                 *)

NoPrefixes == [k \in {} |-> <<>>]
TwoPrefixes == [k \in {<<"b">>, <<"a">>} |-> IF k = <<"a">> THEN <<"e", ":">> ELSE <<"d", ":">>]
PrefixMaps == {NoPrefixes, TwoPrefixes}

SubjA == NamedNode(HTTP \o <<"a">>)
SubjB == NamedNode(<<"_", ":", "b">>)
SubjC == BlankNode(<<"_", ":", "b">>)
Subjects == {SubjA, SubjB, SubjC}
Predicates == {<<"p">>, <<"q">>}
ObjIri == NamedNode(HTTP \o <<"o">>)
ObjLit == SimpleLiteral(<<"x", "\"">>)
Objects == {ObjIri, ObjLit}
Triples == {Triple(s, p, o) : s \in Subjects, p \in Predicates, o \in Objects}
SinkCaps == (0..MaxCap) \cup {Unlimited}

Fresh == [out |-> <<>>, ok |-> TRUE]

\* TurtleFormatterWithPrefixes::new
InitFormatter ==
    /\ sinkCap \in SinkCaps
    /\ \E wp \in BOOLEAN, m \in PrefixMaps :
          LET w == IF wp THEN write_prefixes(Fresh, sinkCap, m) ELSE Fresh
          IN  /\ out = w.out
              /\ ioFailed = ~w.ok       \* unwrap_or_default() drops the error
              /\ prefixCalls = IF wp THEN 1 ELSE 0
    /\ current_subject = <<>>
    /\ current_subject_type = None
    /\ current_predicate = <<>>
    /\ fmtPhase = "live"
    /\ fmtRes = "none"
    /\ fed = <<>>
    /\ nFormat = 0

\* TriplesFormatter::format
format_CursorAlways(t) ==
    /\ fmtPhase = "live"
    /\ LET w0 == [out |-> out, ok |-> TRUE]
           w1 == WritePieces(w0, sinkCap,
                             format_head(current_subject_type, current_subject,
                                         current_predicate, t))
           w2 == fmt_object(t.object, w1, sinkCap)
       IN  /\ out' = w2.out
           /\ fmtRes' = IF w2.ok THEN "Ok" ELSE "Err"
           /\ ioFailed' = (ioFailed \/ ~w2.ok)
           /\ current_subject' = t.subject.text
           /\ current_subject_type' = t.subject.kind
           /\ current_predicate' = t.predicate
           /\ fed' = IF w2.ok THEN Append(fed, t) ELSE fed
    /\ nFormat' = nFormat + 1
    /\ UNCHANGED <<sinkCap, fmtPhase, prefixCalls>>

format(t) ==
    /\ fmtPhase = "live"
    /\ LET w0 == [out |-> out, ok |-> TRUE]
           w1 == WritePieces(w0, sinkCap,
                             format_head(current_subject_type, current_subject,
                                         current_predicate, t))
           w2 == fmt_object(t.object, w1, sinkCap)
       IN  /\ out' = w2.out
           /\ fmtRes' = IF w2.ok THEN "Ok" ELSE "Err"
           /\ ioFailed' = (ioFailed \/ ~w2.ok)
           /\ IF w2.ok
              THEN /\ current_subject' = t.subject.text
                   /\ current_subject_type' = t.subject.kind
                   /\ current_predicate' = t.predicate
              ELSE UNCHANGED <<current_subject, current_subject_type, current_predicate>>
           /\ fed' = IF w2.ok THEN Append(fed, t) ELSE fed
    /\ nFormat' = nFormat + 1
    /\ UNCHANGED <<sinkCap, fmtPhase, prefixCalls>>

Format(t) == nFormat < MaxTriples /\ format(t)
FormatStream(t) == nFormat < MaxStream /\ format(t)

\* the object terms fmt_object tells apart, each as the object of one statement
ObjectTerms ==
    {NamedNode(HTTP \o <<"o">>), NamedNode(<<"d", ":", "o">>),
     NamedNode(HTTP \o <<"a", " ", "b">>), NamedNode(HTTP \o <<"a", "\"">>),
     NamedNode(<<"a", "\\", "b">>), NamedNode(<<"o">>),
     BlankNode(<<"_", ":", "b">>), BlankNode(<<"b", " ", "\"">>), BlankNode(HTTP \o <<"b">>),
     SimpleLiteral(<<"x", "\"">>), LanguageTaggedString(<<"h", "i">>, <<"e", "n">>),
     TypedLiteral(<<"1">>, <<"x", ":", "i">>)}
ObjectTriples == {Triple(SubjA, <<"p">>, o) : o \in ObjectTerms}
FormatObject(t) == nFormat < MaxObjects /\ format(t)

\* TurtleFormatterWithPrefixes::finish
Finish_Always ==
    /\ fmtPhase = "live"
    /\ LET w0 == [out |-> out, ok |-> TRUE]
           w1 == WritePieces(w0, sinkCap, << <<" ", ".", "\n">> >>)
       IN  /\ out' = w1.out
           /\ fmtRes' = IF w1.ok THEN "OkSink" ELSE "Err"
           /\ ioFailed' = (ioFailed \/ ~w1.ok)
    /\ fmtPhase' = "finished"
    /\ UNCHANGED <<sinkCap, current_subject, current_subject_type, current_predicate,
                   fed, nFormat, prefixCalls>>

Finish ==
    /\ fmtPhase = "live"
    /\ LET w0 == [out |-> out, ok |-> TRUE]
           w1 == IF current_subject_type # None
                 THEN WritePieces(w0, sinkCap, << <<" ", ".", "\n">> >>)
                 ELSE w0
       IN  /\ out' = w1.out
           /\ fmtRes' = IF w1.ok THEN "OkSink" ELSE "Err"
           /\ ioFailed' = (ioFailed \/ ~w1.ok)
    /\ fmtPhase' = "finished"
    /\ UNCHANGED <<sinkCap, current_subject, current_subject_type, current_predicate,
                   fed, nFormat, prefixCalls>>

\* TurtleFormatterWithPrefixes::write_prefixes, called on a live formatter
WritePrefixes(m) ==
    /\ fmtPhase = "live"
    /\ prefixCalls < MaxPrefixCalls
    /\ nFormat <= MaxPrefixAt
    /\ LET w == write_prefixes([out |-> out, ok |-> TRUE], sinkCap, m)
       IN  /\ out' = w.out
           /\ fmtRes' = IF w.ok THEN "Ok" ELSE "Err"
           /\ ioFailed' = (ioFailed \/ ~w.ok)
    /\ prefixCalls' = prefixCalls + 1
    /\ UNCHANGED <<sinkCap, current_subject, current_subject_type, current_predicate,
                   fmtPhase, fed, nFormat>>

\* TurtleFormatterWithPrefixes::write_query_prefixes
WriteQueryPrefixes(m) ==
    /\ fmtPhase = "live"
    /\ prefixCalls < MaxPrefixCalls
    /\ nFormat <= MaxPrefixAt
    /\ LET w == write_query_prefixes([out |-> out, ok |-> TRUE], sinkCap, m)
       IN  /\ out' = w.out
           /\ fmtRes' = IF w.ok THEN "Ok" ELSE "Err"
           /\ ioFailed' = (ioFailed \/ ~w.ok)
    /\ prefixCalls' = prefixCalls + 1
    /\ UNCHANGED <<sinkCap, current_subject, current_subject_type, current_predicate,
                   fmtPhase, fed, nFormat>>

IdleFormatter ==
    /\ out = <<>> /\ sinkCap = Unlimited /\ current_subject = <<>>
    /\ current_subject_type = None /\ current_predicate = <<>>
    /\ fmtPhase = "finished" /\ fmtRes = "none" /\ fed = <<>> /\ nFormat = 0
    /\ ioFailed = FALSE /\ prefixCalls = 0

----------------------------------------------------------------------------
(* escape as the caller drives it: one step is one next() on the flat_map  *)

EscAlphabet == {"\n", "\r", "\"", "\\", "n", "a"}
EscTexts == UNION {[1..n -> EscAlphabet] : n \in 0..MaxLen}

InitEscape ==
    /\ escIn \in EscTexts
    /\ escPos = 0
    /\ escState = EscapeDone
    /\ escOut = <<>>

\* the inner iterator still holds an item
EscapeInner ==
    /\ EscapeRDF_len(escState) > 0
    /\ LET r == EscapeRDF_next(escState)
       IN  /\ escOut' = escOut \o r.item
           /\ escState' = r.state
    /\ UNCHANGED <<escIn, escPos>>

\* the inner iterator is exhausted: take the next source character
EscapeOuter ==
    /\ EscapeRDF_len(escState) = 0
    /\ escPos < Len(escIn)
    /\ LET r == EscapeRDF_next(EscapeRDF_new(escIn[escPos + 1]))
       IN  /\ escOut' = escOut \o r.item
           /\ escState' = r.state
    /\ escPos' = escPos + 1
    /\ UNCHANGED escIn

EscapeFinished == escPos = Len(escIn) /\ EscapeRDF_len(escState) = 0

IdleEscape == escIn = <<>> /\ escPos = 0 /\ escState = EscapeDone /\ escOut = <<>>

----------------------------------------------------------------------------
(* parser.rs                                                               *)

MSGPACK_MAGIC_HEADER == 146

Inds == {"i1", "i2"}
Buffers == {<<>>, <<146, 1>>, <<1, 146>>}
DecodedUris == {"d:a", "d:b"}
PredicateNames == {"rdf:type", "v-s:x"}

\* what a whole-object decoder (parse_msgpack, parse_cbor) may return:
\* Ok(uri) or Err(error)
WholeResults ==
    {[ok |-> TRUE, uri |-> u, err |-> ""] : u \in DecodedUris}
    \cup {[ok |-> FALSE, uri |-> "", err |-> e] : e \in {"eof", "bad type"}}
\* what a predicate decoder may return: Ok(()) or Err(message)
PredicateResults == {[ok |-> TRUE, msg |-> ""], [ok |-> FALSE, msg |-> ""],
                     [ok |-> FALSE, msg |-> "bad"]}

\* tag is the raw_type of the target when the call returns
Call(op, i, pred, decoder, decOk, decUri, ret, logged, tag) ==
    [op |-> op, ind |-> i, pred |-> pred, decoder |-> decoder, decOk |-> decOk,
     decUri |-> decUri, ret |-> ret, logged |-> logged, tag |-> tag]
NoCall == Call("none", "", "", "none", FALSE, "", "", FALSE, "Unknown")

InitParser ==
    /\ inds \in [Inds -> {[data |-> b, raw_type |-> t, uri |-> ""] :
                             b \in Buffers, t \in {"Unknown", "Json"}}]
    /\ pcall = NoCall
    /\ prev = NoCall

\* lines 44-48: the classification of a non-empty buffer
Classify_Swapped(traw) == IF traw[1] = MSGPACK_MAGIC_HEADER THEN "Cbor" ELSE "Msgpack"

Classify(traw) == IF traw[1] = MSGPACK_MAGIC_HEADER THEN "Msgpack" ELSE "Cbor"

\* lines 42-61: parse_raw on a non-empty buffer, res being what the decoder returns;
\* the result is the Individual afterwards, the decoder called and the value returned
parse_raw_nonempty_KeepTag(iraw, res) ==
    LET rt == IF iraw.raw_type \in {"Cbor", "Msgpack"} THEN iraw.raw_type
              ELSE Classify(iraw.data)
    IN  [ind     |-> [data |-> iraw.data, raw_type |-> rt,
                      uri |-> IF res.ok THEN res.uri ELSE iraw.uri],
         decoder |-> IF rt = "Msgpack" THEN "parse_msgpack" ELSE "parse_cbor",
         ret     |-> IF res.ok THEN "Ok" ELSE "Err(-1)"]

parse_raw_nonempty_AdoptAlways(iraw, res) ==
    LET rt == Classify(iraw.data)
    IN  [ind     |-> [data |-> iraw.data, raw_type |-> rt, uri |-> res.uri],
         decoder |-> IF rt = "Msgpack" THEN "parse_msgpack" ELSE "parse_cbor",
         ret     |-> IF res.ok THEN "Ok" ELSE "Err(-1)"]

parse_raw_nonempty(iraw, res) ==
    LET rt == Classify(iraw.data)
    IN  [ind     |-> [data |-> iraw.data, raw_type |-> rt,
                      uri |-> IF res.ok THEN res.uri ELSE iraw.uri],
         decoder |-> IF rt = "Msgpack" THEN "parse_msgpack" ELSE "parse_cbor",
         ret     |-> IF res.ok THEN "Ok" ELSE "Err(-1)"]

\* parse_raw
parse_raw_ResetOnEmpty(iraw, res) ==
    IF iraw.data = <<>>
    THEN [ind |-> [iraw EXCEPT !.raw_type = "Unknown"], decoder |-> "none", ret |-> "Ok"]
    ELSE parse_raw_nonempty(iraw, res)

parse_raw(iraw, res) ==
    IF iraw.data = <<>>
    THEN [ind |-> iraw, decoder |-> "none", ret |-> "Ok"]
    ELSE parse_raw_nonempty(iraw, res)

ParseRaw(i, res) ==
    LET r == parse_raw(inds[i], res)
    IN  /\ inds' = [inds EXCEPT ![i] = r.ind]
        /\ pcall' = Call("parse_raw", i, "", r.decoder,
                         r.decoder # "none" /\ res.ok,
                         IF r.decoder # "none" THEN res.uri ELSE "",
                         r.ret, FALSE, r.ind.raw_type)
        /\ prev' = pcall

\* parse_to_predicate, res being what the decoder returns: the decoder called,
\* the value returned and whether error! ran
parse_to_predicate_ElseCbor(iraw, res) ==
    IF iraw.raw_type = "Msgpack"
    THEN [decoder |-> "parse_msgpack_to_predicate", ret |-> res.ok,
          logged |-> (~res.ok /\ res.msg # "")]
    ELSE [decoder |-> "parse_cbor_to_predicate", ret |-> res.ok,
          logged |-> (~res.ok /\ res.msg # "")]

parse_to_predicate_FalseOnlyWithMessage(iraw, res) ==
    IF iraw.raw_type = "Msgpack"
    THEN [decoder |-> "parse_msgpack_to_predicate", ret |-> (res.ok \/ res.msg = ""),
          logged |-> (~res.ok /\ res.msg # "")]
    ELSE IF iraw.raw_type = "Cbor"
    THEN [decoder |-> "parse_cbor_to_predicate", ret |-> (res.ok \/ res.msg = ""),
          logged |-> (~res.ok /\ res.msg # "")]
    ELSE [decoder |-> "none", ret |-> FALSE, logged |-> FALSE]

parse_to_predicate(iraw, res) ==
    IF iraw.raw_type = "Msgpack"
    THEN [decoder |-> "parse_msgpack_to_predicate", ret |-> res.ok,
          logged |-> (~res.ok /\ res.msg # "")]
    ELSE IF iraw.raw_type = "Cbor"
    THEN [decoder |-> "parse_cbor_to_predicate", ret |-> res.ok,
          logged |-> (~res.ok /\ res.msg # "")]
    ELSE [decoder |-> "none", ret |-> FALSE, logged |-> FALSE]

ParseToPredicate(i, expect_predicate, res) ==
    LET r == parse_to_predicate(inds[i], res)
    IN  /\ inds' = inds
        /\ pcall' = Call("parse_to_predicate", i, expect_predicate, r.decoder,
                         r.decoder # "none" /\ res.ok, "",
                         IF r.ret THEN "true" ELSE "false", r.logged, inds[i].raw_type)
        /\ prev' = pcall

\* the owner of an Individual loads another payload into raw.data
SetData(i, b) ==
    /\ inds[i].data # b
    /\ inds' = [inds EXCEPT ![i].data = b]
    /\ pcall' = Call("set_data", i, "", "none", FALSE, "", "", FALSE, inds[i].raw_type)
    /\ prev' = pcall

IdleParser ==
    /\ inds = [i \in Inds |-> [data |-> <<>>, raw_type |-> "Unknown", uri |-> ""]]
    /\ pcall = NoCall
    /\ prev = NoCall

----------------------------------------------------------------------------
(* 64-bit integers.  An i64 is kept as a sign and the decimal digits of    *)
(* its magnitude (most significant first, no leading zero), so that the    *)
(* whole i64 range can be written, compared and printed.                   *)

Digit(d) == <<"0", "1", "2", "3", "4", "5", "6", "7", "8", "9">>[d + 1]
RECURSIVE Digits(_)
Digits(n) == IF n < 10 THEN <<Digit(n)>> ELSE Digits(n \div 10) \o <<Digit(n % 10)>>
RECURSIVE Zeros(_)
Zeros(n) == IF n <= 0 THEN <<>> ELSE <<"0">> \o Zeros(n - 1)
Abs(n) == IF n < 0 THEN -n ELSE n
Pad2(n) == IF n < 10 THEN <<"0", Digit(n)>> ELSE Digits(n)

Wide(neg, mag) == [neg |-> neg, mag |-> mag]
RECURSIVE NatDigits(_)
NatDigits(n) == IF n < 10 THEN <<n>> ELSE NatDigits(n \div 10) \o <<n % 10>>
\* the i64 of a small integer
W(n) == Wide(n < 0, NatDigits(Abs(n)))
WideZero == W(0)
IsZero(w) == w.mag = <<0>>

RECURSIVE ZeroDigits(_)
ZeroDigits(n) == IF n <= 0 THEN <<>> ELSE <<0>> \o ZeroDigits(n - 1)
RECURSIVE StripZeros(_)
StripZeros(mag) ==
    IF Len(mag) > 1 /\ Head(mag) = 0 THEN StripZeros(Tail(mag)) ELSE mag

RECURSIVE MagLeq(_, _)
MagLeq(a, b) ==
    IF Len(a) # Len(b) THEN Len(a) < Len(b)
    ELSE IF a = <<>> THEN TRUE
    ELSE IF Head(a) # Head(b) THEN Head(a) < Head(b)
    ELSE MagLeq(Tail(a), Tail(b))

I64MaxMag == <<9, 2, 2, 3, 3, 7, 2, 0, 3, 6, 8, 5, 4, 7, 7, 5, 8, 0, 7>>
I64MinMag == <<9, 2, 2, 3, 3, 7, 2, 0, 3, 6, 8, 5, 4, 7, 7, 5, 8, 0, 8>>
I64Max == Wide(FALSE, I64MaxMag)
I64Min == Wide(TRUE, I64MinMag)
FitsI64(w) == IF w.neg THEN MagLeq(w.mag, I64MinMag) ELSE MagLeq(w.mag, I64MaxMag)

\* w * 10^e as a mathematical integer
Times10Pow(w, e) == IF IsZero(w) THEN w ELSE Wide(w.neg, w.mag \o ZeroDigits(e))

\* the text of an integer ({} of an i64)
WideText(w) ==
    (IF w.neg THEN <<"-">> ELSE <<>>) \o [i \in 1..Len(w.mag) |-> Digit(w.mag[i])]

\* the magnitude as a small integer (for magnitudes below 10^9)
RECURSIVE MagValue(_)
MagValue(mag) ==
    IF mag = <<>> THEN 0 ELSE MagValue(SubSeq(mag, 1, Len(mag) - 1)) * 10 + mag[Len(mag)]

\* long division of a magnitude by a small divisor: quotient digits and remainder
RECURSIVE DivDigits(_, _, _)
DivDigits(mag, d, r) ==
    IF mag = <<>> THEN [q |-> <<>>, r |-> r]
    ELSE LET t    == r * 10 + Head(mag)
             rest == DivDigits(Tail(mag), d, t % d)
         IN  [q |-> <<t \div d>> \o rest.q, r |-> rest.r]

\* add one to a magnitude
RECURSIVE MagSucc(_)
MagSucc(mag) ==
    IF mag = <<>> THEN <<1>>
    ELSE IF mag[Len(mag)] < 9
         THEN SubSeq(mag, 1, Len(mag) - 1) \o <<mag[Len(mag)] + 1>>
         ELSE MagSucc(SubSeq(mag, 1, Len(mag) - 1)) \o <<0>>

\* i64::div_euclid / rem_euclid by a small positive divisor
DivEuclid(w, d) ==
    LET dm == DivDigits(w.mag, d, 0)
        q  == StripZeros(dm.q)
    IN  IF ~w.neg THEN [q |-> Wide(FALSE, q), r |-> dm.r]
        ELSE IF dm.r = 0 THEN [q |-> Wide(q # <<0>>, q), r |-> 0]
        ELSE [q |-> Wide(TRUE, StripZeros(MagSucc(q))), r |-> d - dm.r]

\* Two's complement wrap-around: the 64 bits as four 16-bit limbs, least
\* significant first
Limb == 65536
ZeroLimbs == <<0, 0, 0, 0>>
RECURSIVE LimbsMulAdd(_, _, _)
LimbsMulAdd(L, k, c) ==
    IF L = <<>> THEN <<>>
    ELSE LET t == Head(L) * k + c
         IN  <<t % Limb>> \o LimbsMulAdd(Tail(L), k, t \div Limb)
RECURSIVE MagToLimbs(_, _)
MagToLimbs(mag, acc) ==
    IF mag = <<>> THEN acc ELSE MagToLimbs(Tail(mag), LimbsMulAdd(acc, 10, Head(mag)))
LimbsNegate(L) == LimbsMulAdd([i \in 1..4 |-> Limb - 1 - L[i]], 1, 1)
\* division of the limbs by 10, most significant limb first
RECURSIVE LimbsDiv10(_, _)
LimbsDiv10(L, r) ==
    IF L = <<>> THEN [q |-> <<>>, r |-> r]
    ELSE LET t    == r * Limb + L[Len(L)]
             rest == LimbsDiv10(SubSeq(L, 1, Len(L) - 1), t % 10)
         IN  [q |-> rest.q \o <<t \div 10>>, r |-> rest.r]
RECURSIVE LimbsToMag(_)
LimbsToMag(L) ==
    LET dm == LimbsDiv10(L, 0)
    IN  IF dm.q = ZeroLimbs THEN <<dm.r>> ELSE LimbsToMag(dm.q) \o <<dm.r>>
\* the i64 that holds the low 64 bits of a mathematical integer
WrapI64(w) ==
    LET u == MagToLimbs(w.mag, ZeroLimbs)
        L == IF w.neg THEN LimbsNegate(u) ELSE u
    IN  IF L[4] >= Limb \div 2
        THEN Wide(TRUE, LimbsToMag(LimbsNegate(L)))
        ELSE Wide(FALSE, LimbsToMag(L))

----------------------------------------------------------------------------
(* individual2json.rs                                                      *)

\* JSON values as serde_json builds them; an object keeps its fields in the
\* order they were serialized
Json(j, n, b, s, fields) == [j |-> j, n |-> n, b |-> b, s |-> s, fields |-> fields]
Field(k, v) == <<k, v>>
JStr(x) == Json("string", WideZero, FALSE, x, <<>>)
JInt(i) == Json("number", i, FALSE, <<>>, <<>>)
JBool(b) == Json("bool", WideZero, b, <<>>, <<>>)
JNull == Json("null", WideZero, FALSE, <<>>, <<>>)
JObj(fields) == Json("object", WideZero, FALSE, <<>>, fields)
\* a serialize call that does not return: the thread panics and unwinds
Panic == Json("panic", WideZero, FALSE, <<>>, <<>>)
\* an object under construction is lost when one of its entries panics
Entries(fields) ==
    IF \E i \in 1..Len(fields) : fields[i][2] = Panic THEN Panic ELSE JObj(fields)
DATA == <<"d", "a", "t", "a">>
LANG == <<"l", "a", "n", "g">>
TYPE == <<"t", "y", "p", "e">>
AT == <<"@">>
\* a JSON array keeps its items as entries without a key
JArr(items) ==
    Json("array", WideZero, FALSE, <<>>, [i \in 1..Len(items) |-> Field(<<>>, items[i])])
Items(items) ==
    IF \E i \in 1..Len(items) : items[i] = Panic THEN Panic ELSE JArr(items)

DataTypes == {"Uri", "String", "Integer", "Datetime", "Decimal", "Boolean", "Binary"}

\* Value variants: n (an i64), e hold the numbers, x the boolean, s the text,
\* l the language tag, bytes the binary payload
Value(variant, n, e, x, s, l, bytes) ==
    [variant |-> variant, n |-> n, e |-> e, x |-> x, s |-> s, l |-> l, bytes |-> bytes]
Value_Num(m, e) == Value("Num", m, e, FALSE, <<>>, <<>>, <<>>)
Value_Int(i) == Value("Int", i, 0, FALSE, <<>>, <<>>, <<>>)
Value_Datetime(i) == Value("Datetime", i, 0, FALSE, <<>>, <<>>, <<>>)
Value_Bool(x) == Value("Bool", WideZero, 0, x, <<>>, <<>>, <<>>)
Value_Str(x, l) == Value("Str", WideZero, 0, FALSE, x, l, <<>>)
Value_Uri(x) == Value("Uri", WideZero, 0, FALSE, x, <<>>, <<>>)
Value_Binary(bytes) == Value("Binary", WideZero, 0, FALSE, <<>>, <<>>, bytes)

NoLang == <<>>                     \* a Lang that holds no tag
Lang_is_some(l) == l # NoLang
Lang_to_string(l) == IF Lang_is_some(l) THEN l ELSE <<"n", "o", "n", "e">>

\* impl Serialize for Lang
serialize_Lang(l) == JStr(Lang_to_string(l))

\* impl Serialize for DataType
serialize_DataType(t) ==
    CASE t = "Uri"      -> JStr(<<"U", "r", "i">>)
      [] t = "String"   -> JStr(<<"S", "t", "r", "i", "n", "g">>)
      [] t = "Integer"  -> JStr(<<"I", "n", "t", "e", "g", "e", "r">>)
      [] t = "Datetime" -> JStr(<<"D", "a", "t", "e", "t", "i", "m", "e">>)
      [] t = "Decimal"  -> JStr(<<"D", "e", "c", "i", "m", "a", "l">>)
      [] t = "Boolean"  -> JStr(<<"B", "o", "o", "l", "e", "a", "n">>)
      [] OTHER          -> JStr(<<"B", "i", "n", "a", "r", "y">>)

\* datatype::exponent_to_scale : (mantissa, exponent) -> (scaled integer, scale >= 0)
\* with scaled * 10^-scale = mantissa * 10^exponent.  The scaled integer is an
\* i64: when mantissa * 10^exponent does not fit, the arithmetic panics in a
\* build with overflow checks and keeps the low 64 bits in a build without.
exponent_to_scale(m, e) ==
    IF e > 0
    THEN LET p == Times10Pow(m, e)
         IN  [panic |-> ~FitsI64(p) /\ overflow_checks, num |-> WrapI64(p), scale |-> 0]
    ELSE [panic |-> FALSE, num |-> m, scale |-> -e]

\* Decimal::new(num, scale) panics when scale exceeds the largest scale of a
\* Decimal
MAX_SCALE == 28

\* Decimal::new(num, scale).to_string() : fixed-point text with exactly scale
\* fraction digits
DecimalToString(num, scale) ==
    LET ds   == [i \in 1..Len(num.mag) |-> Digit(num.mag[i])]
        full == Zeros(scale + 1 - Len(ds)) \o ds
        int  == SubSeq(full, 1, Len(full) - scale)
        frac == SubSeq(full, Len(full) - scale + 1, Len(full))
        sign == IF num.neg THEN <<"-">> ELSE <<>>
    IN  IF scale = 0 THEN sign \o int ELSE sign \o int \o <<".">> \o frac

\* Utc.timestamp_opt(dt, 0).single() : the days chrono can represent
MinDay == -96465292
MaxDay == 95026236
SECS_PER_DAY == 86400
FloorDiv(a, b) == IF a >= 0 THEN a \div b ELSE -((-a + b - 1) \div b)
SmallDay(q) == IF q.neg THEN -MagValue(q.mag) ELSE MagValue(q.mag)
TimestampInRange(dt) ==
    LET q == DivEuclid(dt, SECS_PER_DAY).q
    IN  /\ Len(q.mag) <= 8
        /\ MinDay <= SmallDay(q)
        /\ SmallDay(q) <= MaxDay

\* format!("{:?}", datetime) for a DateTime<Utc> : yyyy-mm-ddThh:mm:ssZ
DebugUtc(dt) ==
    LET de   == DivEuclid(dt, SECS_PER_DAY)
        days == SmallDay(de.q)
        sod  == de.r
        z    == days + 719468
        era  == FloorDiv(z, 146097)
        doe  == z - era * 146097
        yoe  == (doe - doe \div 1460 + doe \div 36524 - doe \div 146096) \div 365
        doy  == doe - (365 * yoe + yoe \div 4 - yoe \div 100)
        mp   == (5 * doy + 2) \div 153
        d    == doy - (153 * mp + 2) \div 5 + 1
        m    == IF mp < 10 THEN mp + 3 ELSE mp - 9
        y    == yoe + era * 400 + (IF m <= 2 THEN 1 ELSE 0)
        year == IF y < 0 THEN <<"-">> \o Zeros(4 - Len(Digits(-y))) \o Digits(-y)
                ELSE IF y > 9999 THEN <<"+">> \o Digits(y)
                ELSE Zeros(4 - Len(Digits(y))) \o Digits(y)
    IN  year \o <<"-">> \o Pad2(m) \o <<"-">> \o Pad2(d) \o <<"T">>
        \o Pad2(sod \div 3600) \o <<":">> \o Pad2((sod % 3600) \div 60) \o <<":">>
        \o Pad2(sod % 60) \o <<"Z">>

\* format!("Invalid timestamp: {}", dt)
InvalidPrefix ==
    <<"I", "n", "v", "a", "l", "i", "d", " ", "t", "i", "m", "e", "s", "t", "a", "m", "p", ":", " ">>
InvalidTimestamp(dt) == InvalidPrefix \o WideText(dt)

\* impl Serialize for Value
serialize_Value_DatetimeAsText(val) ==
    CASE val.variant = "Num" ->
            LET r == exponent_to_scale(val.n, val.e)
            IN  IF r.panic \/ r.scale > MAX_SCALE THEN Panic
                ELSE JStr(DecimalToString(r.num, r.scale))
      [] val.variant = "Int" -> JInt(val.n)
      [] val.variant = "Datetime" ->
            IF TimestampInRange(val.n) THEN JStr(DebugUtc(val.n))
            ELSE JStr(InvalidTimestamp(val.n))
      [] val.variant = "Bool" -> JBool(val.x)
      [] val.variant = "Str" ->
            JObj(<<Field(DATA, JStr(val.s))>>
                 \o (IF Lang_is_some(val.l) THEN <<Field(LANG, serialize_Lang(val.l))>>
                     ELSE <<>>))
      [] val.variant = "Uri" -> JObj(<<Field(DATA, JStr(val.s))>>)
      [] OTHER -> JNull

serialize_Value(val) ==
    CASE val.variant = "Num" ->
            LET r == exponent_to_scale(val.n, val.e)
            IN  IF r.panic \/ r.scale > MAX_SCALE THEN Panic
                ELSE JStr(DecimalToString(r.num, r.scale))
      [] val.variant = "Int" -> JInt(val.n)
      [] val.variant = "Datetime" -> JInt(val.n)
      [] val.variant = "Bool" -> JBool(val.x)
      [] val.variant = "Str" ->
            JObj(<<Field(DATA, JStr(val.s))>>
                 \o (IF Lang_is_some(val.l) THEN <<Field(LANG, serialize_Lang(val.l))>>
                     ELSE <<>>))
      [] val.variant = "Uri" -> JObj(<<Field(DATA, JStr(val.s))>>)
      [] OTHER -> JNull

\* impl Serialize for Resource, the Value::Str arm (lines 67-73)
str_fields_LangAlways(res) ==
    <<Field(DATA, JStr(res.value.s))>>
    \o (IF Lang_is_some(res.value.l)
        THEN <<Field(LANG, serialize_Lang(res.value.l))>> ELSE <<>>)

str_fields(res) ==
    <<Field(DATA, JStr(res.value.s))>>
    \o (IF res.rtype = "String" /\ Lang_is_some(res.value.l)
        THEN <<Field(LANG, serialize_Lang(res.value.l))>> ELSE <<>>)

\* impl Serialize for Resource, the Value::Binary arm (lines 77-79)
binary_fields_WithData(res) == <<Field(DATA, JInt(W(Len(res.value.bytes))))>>

binary_fields(res) == <<>>

\* impl Serialize for Resource : the fields before "type"
resource_fields_DatetimeFails(res) ==
    LET val == res.value
    IN  CASE val.variant = "Num" -> <<Field(DATA, serialize_Value(val))>>
          [] val.variant = "Int" -> <<Field(DATA, JInt(val.n))>>
          [] val.variant = "Datetime" ->
                IF TimestampInRange(val.n)
                THEN <<Field(DATA, JStr(DebugUtc(val.n)))>>
                ELSE <<Field(DATA, Panic)>>
          [] val.variant = "Bool" -> <<Field(DATA, JBool(val.x))>>
          [] val.variant = "Str" -> str_fields(res)
          [] val.variant = "Uri" -> <<Field(DATA, JStr(val.s))>>
          [] OTHER -> binary_fields(res)

resource_fields(res) ==
    LET val == res.value
    IN  CASE val.variant = "Num" -> <<Field(DATA, serialize_Value(val))>>
          [] val.variant = "Int" -> <<Field(DATA, JInt(val.n))>>
          [] val.variant = "Datetime" ->
                IF TimestampInRange(val.n)
                THEN <<Field(DATA, JStr(DebugUtc(val.n)))>>
                ELSE <<Field(DATA, JStr(InvalidTimestamp(val.n)))>>
          [] val.variant = "Bool" -> <<Field(DATA, JBool(val.x))>>
          [] val.variant = "Str" -> str_fields(res)
          [] val.variant = "Uri" -> <<Field(DATA, JStr(val.s))>>
          [] OTHER -> binary_fields(res)

serialize_Resource(res) ==
    Entries(resource_fields(res) \o <<Field(TYPE, serialize_DataType(res.rtype))>>)

\* Inputs
Mantissas == {W(-15), W(0), W(5), W(100), I64Max, I64Min}
Exponents == {-29, -28, -3, -1, 0, 2, 19}
\* the last second chrono represents is 8210266876799, the first -8334601228800
Epochs ==
    {W(-1), W(0), W(86399), W(951782400),
     Wide(FALSE, <<8, 2, 1, 0, 2, 6, 6, 8, 7, 6, 7, 9, 9>>),
     Wide(FALSE, <<8, 2, 1, 0, 2, 6, 6, 8, 7, 6, 8, 0, 0>>),
     Wide(TRUE, <<8, 3, 3, 4, 6, 0, 1, 2, 2, 8, 8, 0, 0>>),
     Wide(TRUE, <<8, 3, 3, 4, 6, 0, 1, 2, 2, 8, 8, 0, 1>>),
     I64Max, I64Min}
Values ==
    {Value_Num(m, e) : m \in Mantissas, e \in Exponents}
    \cup {Value_Int(i) : i \in {W(-1), W(0), W(7), I64Max}}
    \cup {Value_Datetime(i) : i \in Epochs}
    \cup {Value_Bool(x) : x \in BOOLEAN}
    \cup {Value_Str(x, l) : x \in {<<>>, <<"h", "i">>}, l \in {NoLang, <<"e", "n">>, <<"r", "u">>}}
    \cup {Value_Uri(x) : x \in {<<"d", ":", "a">>}}
    \cup {Value_Binary(x) : x \in {<<>>, <<0>>, <<255, 1>>}}
Resources == {[value |-> v, rtype |-> t] : v \in Values, t \in DataTypes}

\* An Individual: resources is the ordered mapping predicate -> Vec<Resource>,
\* kept as the sequence of its (predicate, resources) pairs in stored order
Res(v, t) == [value |-> v, rtype |-> t]
IndividualObj(uri, resources) == [uri |-> uri, resources |-> resources]
PredicateKeys == {<<"b">>, <<"a">>, <<"1">>, AT}
ResourceLists ==
    {<<Res(Value_Int(W(7)), "Integer")>>,
     <<Res(Value_Datetime(I64Max), "Datetime"), Res(Value_Str(<<"h", "i">>, <<"e", "n">>), "String")>>,
     <<Res(Value_Datetime(W(0)), "Datetime"),
       Res(Value_Datetime(Wide(TRUE, <<8, 3, 3, 4, 6, 0, 1, 2, 2, 8, 8, 0, 1>>)), "Integer")>>,
     <<Res(Value_Num(W(5), -29), "Decimal")>>}
Distinct(keys) == \A i, j \in 1..Len(keys) : i # j => keys[i] # keys[j]
ResourceMaps ==
    UNION {{r \in [1..n -> PredicateKeys \X ResourceLists] :
              Distinct([i \in 1..n |-> r[i][1]])} : n \in 0..MaxPredicates}
Individuals == {IndividualObj(<<"d", ":", "i">>, r) : r \in ResourceMaps}
NoIndividual == IndividualObj(<<>>, <<>>)

\* impl Serialize for Vec<Resource> : a sequence of the items' serializations
serialize_Vec(rs) == Items([i \in 1..Len(rs) |-> serialize_Resource(rs[i])])

\* impl Serialize for IndividualObj : the entries handed to the serializer, in
\* the order of the serialize_entry calls
serialize_IndividualObj_AtLast(ind) ==
    Entries([i \in 1..Len(ind.resources) |->
               Field(ind.resources[i][1], serialize_Vec(ind.resources[i][2]))]
            \o <<Field(AT, JStr(ind.uri))>>)

serialize_IndividualObj(ind) ==
    Entries(<<Field(AT, JStr(ind.uri))>>
            \o [i \in 1..Len(ind.resources) |->
                  Field(ind.resources[i][1], serialize_Vec(ind.resources[i][2]))])

\* serde_json::Map::insert : a key already present keeps its place and takes
\* the new value; a new key goes last in a map that preserves insertion order
\* and to its sorted place otherwise
MapInsert(fields, k, v) ==
    IF \E i \in 1..Len(fields) : fields[i][1] = k
    THEN [i \in 1..Len(fields) |-> IF fields[i][1] = k THEN Field(k, v) ELSE fields[i]]
    ELSE IF preserve_order THEN Append(fields, Field(k, v))
    ELSE LET before == SelectSeq(fields, LAMBDA f : LexLess(f[1], k))
             after  == SelectSeq(fields, LAMBDA f : LexLess(k, f[1]))
         IN  before \o <<Field(k, v)>> \o after
RECURSIVE MapCollect(_, _)
MapCollect(entries, map) ==
    IF entries = <<>> THEN map
    ELSE MapCollect(Tail(entries), MapInsert(map, Head(entries)[1], Head(entries)[2]))

\* serde_json::to_value : the serde_json::Value built from what a Serialize
\* impl hands to the serializer
RECURSIVE to_value(_)
to_value(j) ==
    CASE j.j = "object" ->
            JObj(MapCollect([i \in 1..Len(j.fields) |->
                               Field(j.fields[i][1], to_value(j.fields[i][2]))], <<>>))
      [] j.j = "array" ->
            JArr([i \in 1..Len(j.fields) |-> to_value(j.fields[i][2])])
      [] OTHER -> j

\* serde_json::Value::to_string : compact JSON text
JsonQuote(t) ==
    LET esc(c) == IF c = "\"" THEN <<"\\", "\"">>
                  ELSE IF c = "\\" THEN <<"\\", "\\">>
                  ELSE IF c = "\n" THEN <<"\\", "n">>
                  ELSE <<c>>
    IN  <<"\"">> \o Concat([i \in 1..Len(t) |-> esc(t[i])]) \o <<"\"">>
RECURSIVE to_string(_), EntriesText(_, _)
EntriesText(fields, keyed) ==
    IF fields = <<>> THEN <<>>
    ELSE (IF keyed THEN JsonQuote(Head(fields)[1]) \o <<":">> ELSE <<>>)
         \o to_string(Head(fields)[2])
         \o (IF Len(fields) > 1 THEN <<",">> \o EntriesText(Tail(fields), keyed) ELSE <<>>)
to_string(j) ==
    CASE j.j = "object" -> <<"{">> \o EntriesText(j.fields, TRUE) \o <<"}">>
      [] j.j = "array" -> <<"[">> \o EntriesText(j.fields, FALSE) \o <<"]">>
      [] j.j = "string" -> JsonQuote(j.s)
      [] j.j = "number" -> WideText(j.n)
      [] j.j = "bool" -> IF j.b THEN <<"t", "r", "u", "e">> ELSE <<"f", "a", "l", "s", "e">>
      [] OTHER -> <<"n", "u", "l", "l">>

\* The result of a call: op the entry point, json the value returned (Panic if
\* the call unwinds), text the String returned by as_json_str
Out(op, json, text) == [op |-> op, json |-> json, text |-> text]
NoJson == Out("none", JNull, <<>>)
Through(j) == IF j = Panic THEN Panic ELSE to_value(j)

InitJson ==
    /\ jsIn \in Resources
    /\ jsInd = NoIndividual
    /\ jsOut = NoJson
    /\ overflow_checks \in BOOLEAN
    /\ preserve_order \in BOOLEAN

InitIndividual ==
    /\ jsIn = Res(Value_Binary(<<>>), "Binary")
    /\ jsInd \in Individuals
    /\ jsOut = NoJson
    /\ overflow_checks \in BOOLEAN
    /\ preserve_order \in BOOLEAN

\* serde_json::to_value(&resource)
SerializeResource ==
    /\ jsOut' = Out("Resource", Through(serialize_Resource(jsIn)), <<>>)
    /\ UNCHANGED <<jsIn, jsInd, overflow_checks, preserve_order>>

\* serde_json::to_value(&resource.value)
SerializeValue ==
    /\ jsOut' = Out("Value", Through(serialize_Value(jsIn.value)), <<>>)
    /\ UNCHANGED <<jsIn, jsInd, overflow_checks, preserve_order>>

\* individual.serialize(serializer) : the map as the serializer receives it
SerializeIndividual ==
    /\ jsOut' = Out("serialize", serialize_IndividualObj(jsInd), <<>>)
    /\ UNCHANGED <<jsIn, jsInd, overflow_checks, preserve_order>>

\* IndividualObj::as_json ; to_value returns no Err for these maps, so the
\* json!(null) fallback is not taken
AsJson ==
    /\ jsOut' = Out("as_json", Through(serialize_IndividualObj(jsInd)), <<>>)
    /\ UNCHANGED <<jsIn, jsInd, overflow_checks, preserve_order>>

\* IndividualObj::as_json_str
as_json_str(b) == Out("as_json_str", b, IF b = Panic THEN <<>> ELSE to_string(b))
AsJsonStr ==
    /\ jsOut' = as_json_str(Through(serialize_IndividualObj(jsInd)))
    /\ UNCHANGED <<jsIn, jsInd, overflow_checks, preserve_order>>

IdleJson ==
    /\ jsIn = Res(Value_Binary(<<>>), "Binary")
    /\ jsInd = NoIndividual
    /\ jsOut = NoJson
    /\ overflow_checks = FALSE
    /\ preserve_order = FALSE

----------------------------------------------------------------------------
(* Specifications                                                          *)

NextFormatter ==
    \/ \E t \in Triples : Format(t) /\ UNCHANGED <<parseVars, escVars, jsonVars>>
    \/ Finish /\ UNCHANGED <<parseVars, escVars, jsonVars>>
    \/ \E m \in PrefixMaps : WritePrefixes(m) /\ UNCHANGED <<parseVars, escVars, jsonVars>>
    \/ \E m \in PrefixMaps : WriteQueryPrefixes(m) /\ UNCHANGED <<parseVars, escVars, jsonVars>>

FormatterInit == InitFormatter /\ IdleParser /\ IdleEscape /\ IdleJson
SpecFormatter == FormatterInit /\ [][NextFormatter]_vars

NextParser ==
    \/ \E i \in Inds, r \in WholeResults : ParseRaw(i, r) /\ UNCHANGED <<fmtVars, escVars, jsonVars>>
    \/ \E i \in Inds, p \in PredicateNames, r \in PredicateResults :
          ParseToPredicate(i, p, r) /\ UNCHANGED <<fmtVars, escVars, jsonVars>>
    \/ \E i \in Inds, b \in Buffers : SetData(i, b) /\ UNCHANGED <<fmtVars, escVars, jsonVars>>

\* a fresh formatter on a sink that never fails, no prefix block
InitGrouping == InitFormatter /\ sinkCap = Unlimited /\ prefixCalls = 0
GroupingInit == InitGrouping /\ IdleParser /\ IdleEscape /\ IdleJson

NextGrouping ==
    \/ \E t \in Triples : FormatStream(t) /\ UNCHANGED <<parseVars, escVars, jsonVars>>
    \/ Finish /\ UNCHANGED <<parseVars, escVars, jsonVars>>

SpecGrouping == GroupingInit /\ [][NextGrouping]_vars

NextObject ==
    \E t \in ObjectTriples : FormatObject(t) /\ UNCHANGED <<parseVars, escVars, jsonVars>>

ObjectInit == InitGrouping /\ IdleParser /\ IdleEscape /\ IdleJson
SpecObject == ObjectInit /\ [][NextObject]_vars

ParserInit == IdleFormatter /\ InitParser /\ IdleEscape /\ IdleJson
SpecParser == ParserInit /\ [][NextParser]_vars

NextEscape ==
    \/ EscapeInner /\ UNCHANGED <<fmtVars, parseVars, jsonVars>>
    \/ EscapeOuter /\ UNCHANGED <<fmtVars, parseVars, jsonVars>>

EscapeInit == IdleFormatter /\ IdleParser /\ InitEscape /\ IdleJson
SpecEscape == EscapeInit /\ [][NextEscape]_vars

NextJson ==
    \/ SerializeResource /\ UNCHANGED <<fmtVars, parseVars, escVars>>
    \/ SerializeValue /\ UNCHANGED <<fmtVars, parseVars, escVars>>

JsonInit == IdleFormatter /\ IdleParser /\ IdleEscape /\ InitJson
SpecJson == JsonInit /\ [][NextJson]_vars

NextIndividual ==
    \/ SerializeIndividual /\ UNCHANGED <<fmtVars, parseVars, escVars>>
    \/ AsJson /\ UNCHANGED <<fmtVars, parseVars, escVars>>
    \/ AsJsonStr /\ UNCHANGED <<fmtVars, parseVars, escVars>>

IndividualInit == IdleFormatter /\ IdleParser /\ IdleEscape /\ InitIndividual
SpecIndividual == IndividualInit /\ [][NextIndividual]_vars

----------------------------------------------------------------------------
(* Properties of the Turtle formatter                                      *)

SubjectText(s) ==
    IF StartsWith(s.text, HTTP) THEN <<"<">> \o s.text \o <<">">> ELSE s.text
ObjectText(o) == Concat(fmt_object_pieces(o))
Indent == <<" ", "\n", " ", " ">>

\* the stream (s1,p1,o1),(s1,p1,o2),(s1,p2,o3),(s2,p1,o4) with s1 # s2, p1 # p2
IsGroupedStream(f) ==
    /\ Len(f) = 4
    /\ f[2].subject = f[1].subject /\ f[3].subject = f[1].subject
    /\ f[4].subject # f[1].subject
    /\ f[2].predicate = f[1].predicate /\ f[3].predicate # f[1].predicate
    /\ f[4].predicate = f[1].predicate

GroupedText(f) ==
    SubjectText(f[1].subject) \o Indent \o f[1].predicate \o <<" ">> \o ObjectText(f[1].object)
    \o <<",", " ">> \o ObjectText(f[2].object)
    \o <<" ", ";", "\n", " ", " ">> \o f[3].predicate \o <<" ">> \o ObjectText(f[3].object)
    \o <<" ", ".", "\n", "\n">>
    \o SubjectText(f[4].subject) \o Indent \o f[4].predicate \o <<" ">> \o ObjectText(f[4].object)
    \o <<" ", ".", "\n">>

\* C1: on a fresh formatter and a sink that never fails, the stream
\* (s1,p1,o1),(s1,p1,o2),(s1,p2,o3),(s2,p1,o4) followed by finish() yields exactly:
\* one statement for s1 with ", " between o1 and o2 and " ;\n  p2 " before o3,
\* then " .\n\n", a fresh statement for s2, and the final " .\n"; nothing else.
C1_GroupedOutput ==
    (fmtPhase = "finished" /\ IsGroupedStream(fed)) => (out = GroupedText(fed) /\ fmtRes = "OkSink")

C1_Witness ==
    /\ fmtPhase = "finished" /\ IsGroupedStream(fed)
    /\ fed[1].object # fed[2].object
    /\ sinkCap = Unlimited /\ prefixCalls = 0 /\ nFormat = 4

FinishStep == fmtPhase = "live" /\ fmtPhase' = "finished"
FinalDot == <<" ", ".", "\n">>

\* C2 (as stated): finish() writes the terminating " .\n" if at least one triple was
\* ever written by format and nothing otherwise, and returns the sink in both cases.
C2_FinishAlwaysReturnsSink ==
    [][FinishStep =>
          /\ fmtRes' = "OkSink"
          /\ out' = IF fed # <<>> THEN out \o FinalDot ELSE out]_vars

\* C2 (amended): finish() writes nothing and returns the sink if no triple was ever
\* written by format; otherwise it writes " .\n" and returns the sink, unless the sink
\* fails on that write, and then it returns the error with only the accepted part
\* of the terminator written.
C2_Finish ==
    [][FinishStep =>
          IF fed = <<>>
          THEN out' = out /\ fmtRes' = "OkSink"
          ELSE \/ out' = out \o FinalDot /\ fmtRes' = "OkSink"
               \/ /\ fmtRes' = "Err"
                  /\ sinkCap # Unlimited
                  /\ Len(out') = sinkCap
                  /\ \E k \in 0..2 : out' = out \o SubSeq(FinalDot, 1, k)]_vars

C2_Witness ==
    /\ fmtPhase = "finished" /\ fmtRes = "OkSink"
    /\ fed # <<>> /\ prefixCalls > 0
    /\ Len(out) > 3 /\ SubSeq(out, Len(out) - 2, Len(out)) = FinalDot

\* a format call that returned Ok on an open formatter: t is the triple it
\* wrote, q the triple written immediately before
OpenFormatStep == fed # <<>> /\ Len(fed') = Len(fed) + 1
Written == SubSeq(out', Len(out) + 1, Len(out'))
SameSubject(t, q) == t.subject.text = q.subject.text /\ t.subject.kind = q.subject.kind
Comma == <<",", " ">>
Semicolon == <<" ", ";", "\n", " ", " ">>

\* C15: on an open formatter what format writes before the object is decided by
\* the triple written immediately before: ", " exactly when subject (text and
\* kind) and predicate are equal, " ;\n  predicate " exactly when the subject is
\* equal and the predicate differs, " .\n\n" with the new subject and the
\* predicate in full exactly when the subject differs in text or kind.
C15_HeadByPreviousTriple ==
    [][OpenFormatStep =>
          LET t == fed'[Len(fed')]
              q == fed[Len(fed)]
              o == ObjectText(t.object)
          IN  /\ (SameSubject(t, q) /\ t.predicate = q.predicate)
                    <=> Written = Comma \o o
              /\ (SameSubject(t, q) /\ t.predicate # q.predicate)
                    <=> Written = Semicolon \o t.predicate \o <<" ">> \o o
              /\ ~SameSubject(t, q)
                    <=> Written = Terminator \o SubjectText(t.subject) \o Indent
                                  \o t.predicate \o <<" ">> \o o]_vars

\* the same text as a named node and then as a blank node, with one predicate
C15_Witness ==
    /\ Len(fed) = 2
    /\ fed[1].subject = SubjB /\ fed[2].subject = SubjC
    /\ fed[1].predicate = fed[2].predicate
    /\ out = SubjectText(SubjB) \o Indent \o fed[1].predicate \o <<" ">>
              \o ObjectText(fed[1].object)
              \o Terminator \o SubjectText(SubjC) \o Indent \o fed[2].predicate \o <<" ">>
              \o ObjectText(fed[2].object)

Occurrences(text, pat) ==
    {i \in 1..(Len(text) - Len(pat) + 1) : SubSeq(text, i, i + Len(pat) - 1) = pat}
CountOcc(text, pat) == Cardinality(Occurrences(text, pat))
\* a subject header ends with " \n  "; a statement terminator is " .\n"
Headers(text) == CountOcc(text, Indent)
Terminators(text) == CountOcc(text, FinalDot)
\* the maximal runs of equal consecutive subjects
Runs(f) ==
    Cardinality({i \in 1..Len(f) : i = 1 \/ ~SameSubject(f[i], f[i - 1])})
Block(t) ==
    SubjectText(t.subject) \o Indent \o t.predicate \o <<" ">> \o ObjectText(t.object)
\* the stream (s1,p,o1),(s2,p,o2),(s1,p,o3) with s1 # s2
IsInterleavedStream(f) ==
    /\ Len(f) = 3
    /\ f[3].subject = f[1].subject /\ f[2].subject # f[1].subject
    /\ f[2].predicate = f[1].predicate /\ f[3].predicate = f[1].predicate

\* C16: format only appends to the output, and the number of statement blocks
\* in it is the number of maximal runs of equal consecutive subjects; for
\* (s1,p,o1),(s2,p,o2),(s1,p,o3) there are three blocks, two of them for s1.
C16_BlockPerRun ==
    /\ [](Headers(out) = Runs(fed))
    /\ []((fmtPhase = "live" /\ IsInterleavedStream(fed)) =>
             out = Block(fed[1]) \o Terminator \o Block(fed[2]) \o Terminator
                   \o Block(fed[3]))
    /\ [][StartsWith(out', out)]_vars
C16_Witness ==
    /\ fmtPhase = "live" /\ IsInterleavedStream(fed)
    /\ fed[1].subject = SubjA /\ fed[2].subject = SubjB
    /\ Headers(out) = 3
    /\ CountOcc(out, SubjectText(SubjA) \o Indent) = 2

\* C17: with a sink that never fails, headers written minus terminators
\* written is 1 while the formatter is open and 0 while it is empty, at every
\* point of the output no terminator comes without an open statement, and
\* after finish() the two numbers are equal.
C17_HeadersAndTerminators ==
    /\ fmtPhase = "live" =>
          Headers(out) - Terminators(out) = (IF current_subject_type # None THEN 1 ELSE 0)
    /\ fmtPhase = "finished" => Headers(out) = Terminators(out)
    /\ LET H == Occurrences(out, Indent)
           T == Occurrences(out, FinalDot)
       IN  \A k \in H \cup T :
             Cardinality({h \in H : h <= k}) - Cardinality({t \in T : t <= k}) \in {0, 1}
C17_Witness ==
    /\ fmtPhase = "finished"
    /\ Headers(out) = 3
    /\ Terminators(out) = 3
    /\ IsInterleavedStream(fed)

----------------------------------------------------------------------------
(* Properties of the parser dispatch                                       *)

Target == inds[pcall.ind]
RawCalled == pcall.op = "parse_raw"
PredicateCalled == pcall.op = "parse_to_predicate"

\* C3: for a non-empty buffer parse_raw classifies the Individual as Msgpack exactly
\* when byte 0 is 146 and as Cbor otherwise, and calls the decoder of that format only,
\* whether the decoder then succeeds or fails.
C3_Classification ==
    (RawCalled /\ Target.data # <<>>) =>
        IF Target.data[1] = 146
        THEN Target.raw_type = "Msgpack" /\ pcall.decoder = "parse_msgpack"
        ELSE Target.raw_type = "Cbor" /\ pcall.decoder = "parse_cbor"

C3_Witness ==
    /\ RawCalled /\ Target.data = <<1, 146>>
    /\ Target.raw_type = "Cbor" /\ pcall.decoder = "parse_cbor" /\ ~pcall.decOk

\* C4: parse_raw on an Individual whose buffer is empty returns Ok(()), calls no
\* decoder and leaves the Individual (raw_type, uri, data) as it was.
C4_EmptyBufferNoOp ==
    [][(pcall'.op = "parse_raw" /\ inds[pcall'.ind].data = <<>>) =>
          /\ inds' = inds
          /\ pcall'.ret = "Ok"
          /\ pcall'.decoder = "none"]_vars

C4_Witness ==
    /\ RawCalled /\ Target.data = <<>> /\ pcall.ret = "Ok"
    /\ Target.raw_type = "Msgpack" /\ Target.uri = "d:a"

\* C5: for a non-empty buffer parse_raw returns Ok(()) and sets obj.uri to the
\* decoder's URI exactly when the decoder succeeds; when the decoder fails, whatever
\* its error, parse_raw returns Err(-1) and obj.uri is left as it was.
C5_UriAdoption ==
    [][(pcall'.op = "parse_raw" /\ inds[pcall'.ind].data # <<>>) =>
          LET i == pcall'.ind
          IN  IF pcall'.decOk
              THEN pcall'.ret = "Ok" /\ inds'[i].uri = pcall'.decUri
              ELSE pcall'.ret = "Err(-1)" /\ inds'[i].uri = inds[i].uri]_vars

C5_Witness ==
    /\ RawCalled /\ Target.data # <<>>
    /\ ~pcall.decOk /\ pcall.ret = "Err(-1)" /\ Target.uri = "d:b"

\* C6: parse_to_predicate on an Individual whose raw_type is Unknown or Json returns
\* false for every predicate name, calls no decoder and logs nothing.
C6_UnclassifiedFails ==
    (PredicateCalled /\ Target.raw_type \in {"Unknown", "Json"}) =>
        pcall.ret = "false" /\ pcall.decoder = "none" /\ ~pcall.logged

C6_Witness ==
    /\ PredicateCalled /\ Target.raw_type = "Json" /\ Target.data # <<>>
    /\ pcall.ret = "false"

MatchingDecoder(rt) ==
    CASE rt = "Msgpack" -> "parse_msgpack_to_predicate"
      [] rt = "Cbor"    -> "parse_cbor_to_predicate"
      [] OTHER          -> "none"

\* C7: every parse_to_predicate call returns true exactly when the decoder matching
\* the Individual's raw_type returned Ok for that call, whatever the call before it
\* did; the call changes no Individual.
C7_ResultIsDecoderResult ==
    /\ [](PredicateCalled =>
            /\ pcall.decoder = MatchingDecoder(Target.raw_type)
            /\ (pcall.ret = "true") <=> (pcall.decoder # "none" /\ pcall.decOk)
            /\ pcall.ret \in {"true", "false"})
    /\ [][pcall'.op = "parse_to_predicate" => inds' = inds]_vars

C7_Witness ==
    /\ PredicateCalled /\ pcall.ret = "true"
    /\ prev.op = "parse_to_predicate" /\ prev.ret = "false" /\ prev.logged
    /\ prev.pred # pcall.pred /\ prev.ind = pcall.ind

Classified(i) == inds[i].raw_type \in {"Cbor", "Msgpack"}
ParserStep(i) == pcall'.op \in {"parse_raw", "parse_to_predicate"} /\ pcall'.ind = i

\* C18 as stated: once parse_raw has classified an Individual as Cbor or
\* Msgpack, no later parse_raw or parse_to_predicate call on it changes
\* raw_type, whatever its buffer holds then.
C18_RawTypeSetOnce ==
    [][\A i \in Inds :
          (Classified(i) /\ ParserStep(i)) => inds'[i].raw_type = inds[i].raw_type]_vars

\* C18: parse_to_predicate never changes raw_type, and neither does parse_raw
\* on an empty buffer; parse_raw on a non-empty buffer sets it again from
\* byte 0 of the buffer it finds, whatever the tag was before and whether the
\* decoder succeeds or fails.
C18_RawTypeFollowsBuffer ==
    [][\A i \in Inds :
          /\ (pcall'.op = "parse_to_predicate" /\ pcall'.ind = i) =>
                inds'[i].raw_type = inds[i].raw_type
          /\ (pcall'.op = "parse_raw" /\ pcall'.ind = i) =>
                inds'[i].raw_type =
                    IF inds[i].data = <<>> THEN inds[i].raw_type
                    ELSE IF inds[i].data[1] = MSGPACK_MAGIC_HEADER THEN "Msgpack"
                    ELSE "Cbor"
          /\ (pcall'.op \in {"parse_raw", "parse_to_predicate"} /\ pcall'.ind # i) =>
                inds'[i].raw_type = inds[i].raw_type]_vars
\* an Individual classified Msgpack, given another payload, is classified Cbor
C18_Witness ==
    /\ pcall.op = "parse_raw" /\ pcall.tag = "Cbor"
    /\ prev.op = "set_data" /\ prev.ind = pcall.ind /\ prev.tag = "Msgpack"
    /\ inds[pcall.ind].raw_type = "Cbor"

----------------------------------------------------------------------------
(* Properties of escaping                                                  *)

\* the escaping rule: one source character to one or two output characters
EscapeRule(c) ==
    CASE c = "\n" -> <<"\\", "n">>
      [] c = "\r" -> <<"\\", "r">>
      [] c = "\"" -> <<"\\", "\"">>
      [] c = "\\" -> <<"\\", "\\">>
      [] OTHER    -> <<c>>

RECURSIVE EscapeByRule(_)
EscapeByRule(s) == IF s = <<>> THEN <<>> ELSE EscapeRule(Head(s)) \o EscapeByRule(Tail(s))

\* the reverse rule: a backslash and the character after it name one character
UnescapePair(c) ==
    CASE c = "n" -> "\n"
      [] c = "r" -> "\r"
      [] OTHER   -> c

RECURSIVE Unescape(_)
Unescape(s) ==
    IF s = <<>> THEN <<>>
    ELSE IF Head(s) = "\\" /\ Len(s) >= 2
         THEN <<UnescapePair(s[2])>> \o Unescape(Tail(Tail(s)))
         ELSE <<Head(s)>> \o Unescape(Tail(s))

\* what the current iterator still holds
Pending(st) ==
    CASE st.tag = "Backslash" -> <<"\\", st.c>>
      [] st.tag = "Char"      -> <<st.c>>
      [] OTHER                -> <<>>

\* C8: escaping maps newline, carriage return, double quote and backslash to a
\* backslash followed by n, r, double quote and backslash, and every other character
\* to itself; un-escaping the escaped text by the reverse rule gives the original.
C8_EscapeRoundTrip ==
    /\ escOut \o Pending(escState) = EscapeByRule(SubSeq(escIn, 1, escPos))
    /\ EscapeFinished =>
          /\ escOut = escape(escIn)
          /\ Unescape(escOut) = escIn

C8_Witness ==
    /\ EscapeFinished
    /\ escIn = <<"\\", "n", "\n">>
    /\ escOut = <<"\\", "\\", "n", "\\", "n">>

----------------------------------------------------------------------------
(* Properties of the JSON encoding                                         *)

Keys(json) == [i \in 1..Len(json.fields) |-> json.fields[i][1]]
HasKey(json, k) == \E i \in 1..Len(json.fields) : json.fields[i][1] = k
Get(json, k) == json.fields[CHOOSE i \in 1..Len(json.fields) : json.fields[i][1] = k][2]
ResourceSerialized == jsOut.op = "Resource"

\* C9: the JSON object of a Resource holding Value::Str has a 'lang' field if and
\* only if its rtype is DataType::String and a language tag is set.
C9_LangConditional ==
    (ResourceSerialized /\ jsIn.value.variant = "Str") =>
        /\ HasKey(jsOut.json, LANG) <=> (jsIn.rtype = "String" /\ Lang_is_some(jsIn.value.l))
        /\ HasKey(jsOut.json, LANG) => Get(jsOut.json, LANG) = JStr(jsIn.value.l)

C9_Witness ==
    /\ ResourceSerialized /\ jsIn.value.variant = "Str"
    /\ jsIn.rtype = "Uri" /\ jsIn.value.l = <<"e", "n">>
    /\ Keys(jsOut.json) = <<DATA, TYPE>>

\* C10: a Resource with value Binary(any bytes) and rtype Binary serializes to exactly
\* {"type":"Binary"}: the single key 'type', no 'data' key.
C10_BinaryOnlyType ==
    (ResourceSerialized /\ jsIn.value.variant = "Binary" /\ jsIn.rtype = "Binary") =>
        jsOut.json = JObj(<<Field(TYPE, JStr(<<"B", "i", "n", "a", "r", "y">>))>>)

C10_Witness ==
    /\ ResourceSerialized /\ jsIn.value = Value_Binary(<<255, 1>>) /\ jsIn.rtype = "Binary"
    /\ ~HasKey(jsOut.json, DATA)

----------------------------------------------------------------------------
(* Decimal rendering of Value::Num                                         *)

DigitValue(c) == CHOOSE d \in 0..9 : Digit(d) = c
IsDigitText(t) == \A i \in 1..Len(t) : \E d \in 0..9 : Digit(d) = t[i]
DotAt(t) == {i \in 1..Len(t) : t[i] = "."}
\* a fixed-point decimal text read back: sign, digits, number of fraction digits
ParsesAsDecimal(t) ==
    LET u  == IF t # <<>> /\ Head(t) = "-" THEN Tail(t) ELSE t
        ds == SelectSeq(u, LAMBDA c : c # ".")
    IN  /\ Cardinality(DotAt(u)) <= 1
        /\ ds # <<>>
        /\ IsDigitText(ds)
        /\ \A i \in DotAt(u) : 1 < i /\ i < Len(u)
ParseDecimal(t) ==
    LET neg == t # <<>> /\ Head(t) = "-"
        u   == IF neg THEN Tail(t) ELSE t
        ds  == SelectSeq(u, LAMBDA c : c # ".")
    IN  [neg   |-> neg,
         mag   |-> [i \in 1..Len(ds) |-> DigitValue(ds[i])],
         scale |-> IF DotAt(u) = {} THEN 0 ELSE Len(u) - (CHOOSE i \in DotAt(u) : TRUE)]
\* p.mag * 10^-p.scale = m * 10^e, compared as integers after scaling both sides
DecimalEquals(p, m, e) ==
    LET lhs == StripZeros(p.mag \o ZeroDigits(IF e < 0 THEN -e ELSE 0))
        rhs == StripZeros(m.mag \o ZeroDigits(p.scale + (IF e > 0 THEN e ELSE 0)))
    IN  lhs = rhs /\ (lhs = <<0>> \/ p.neg = m.neg)

DecimalSerialized ==
    jsOut.op = "Resource" /\ jsIn.value.variant = "Num" /\ jsIn.rtype = "Decimal"

\* C11: for every (mantissa, exponent) pair, serializing a Decimal-typed
\* Resource holding Num(mantissa, exponent) completes and its "data" string,
\* read back as a fixed-point decimal, equals mantissa * 10^exponent exactly.
C11_DecimalExactForAllPairs ==
    DecimalSerialized =>
        /\ jsOut.json # Panic
        /\ jsOut.json.j = "object"
        /\ HasKey(jsOut.json, DATA)
        /\ Get(jsOut.json, DATA).j = "string"
        /\ ParsesAsDecimal(Get(jsOut.json, DATA).s)
        /\ DecimalEquals(ParseDecimal(Get(jsOut.json, DATA).s), jsIn.value.n, jsIn.value.e)

\* the pairs the rendering is exact for: the scale is at most 28 and
\* mantissa * 10^exponent fits an i64
C11_ExactWithinRange ==
    (/\ DecimalSerialized
     /\ jsIn.value.e >= -MAX_SCALE
     /\ FitsI64(Times10Pow(jsIn.value.n, jsIn.value.e)))
    => /\ jsOut.json.j = "object"
       /\ Get(jsOut.json, DATA).j = "string"
       /\ ParsesAsDecimal(Get(jsOut.json, DATA).s)
       /\ DecimalEquals(ParseDecimal(Get(jsOut.json, DATA).s), jsIn.value.n, jsIn.value.e)

C11_ScalePanics ==
    DecimalSerialized /\ jsIn.value.n = W(5) /\ jsIn.value.e = -29 /\ jsOut.json = Panic
C11_Wrapped ==
    /\ DecimalSerialized /\ jsIn.value.n = I64Max /\ jsIn.value.e = 2 /\ ~overflow_checks
    /\ jsOut.json # Panic
    /\ Get(jsOut.json, DATA) = JStr(<<"-", "1", "0", "0">>)

----------------------------------------------------------------------------
(* Resource-level and Value-level encodings                                *)

ValueSerialized == jsOut.op = "Value"
IsDigitAt(t, i) == \E d \in 0..9 : Digit(d) = t[i]
\* [sign]y..y-mm-ddThh:mm:ssZ
IsTimestampText(t) ==
    LET n == Len(t)
    IN  /\ n >= 20
        /\ t[n] = "Z" /\ t[n - 3] = ":" /\ t[n - 6] = ":" /\ t[n - 9] = "T"
        /\ t[n - 12] = "-" /\ t[n - 15] = "-"
        /\ \A i \in {n - 1, n - 2, n - 4, n - 5, n - 7, n - 8, n - 10, n - 11, n - 13, n - 14} :
              IsDigitAt(t, i)
        /\ \A i \in 2..(n - 16) : IsDigitAt(t, i)
        /\ (IsDigitAt(t, 1) /\ n = 20) \/ (t[1] \in {"+", "-"} /\ n > 20)

\* the encodings of Str, Uri and Binary as bare Values
BareEncodings ==
    /\ (ValueSerialized /\ jsIn.value.variant = "Str") =>
          /\ jsOut.json.j = "object"
          /\ Keys(jsOut.json) =
                (IF Lang_is_some(jsIn.value.l) THEN <<DATA, LANG>> ELSE <<DATA>>)
          /\ Get(jsOut.json, DATA) = JStr(jsIn.value.s)
          /\ HasKey(jsOut.json, LANG) => Get(jsOut.json, LANG) = JStr(jsIn.value.l)
    /\ (ValueSerialized /\ jsIn.value.variant = "Uri") =>
          /\ jsOut.json.j = "object"
          /\ Keys(jsOut.json) = <<DATA>>
          /\ Get(jsOut.json, DATA) = JStr(jsIn.value.s)
    /\ (ValueSerialized /\ jsIn.value.variant = "Binary") => jsOut.json = JNull
\* a bare Datetime is the raw integer, as a bare Int is
BareDatetime ==
    (ValueSerialized /\ jsIn.value.variant = "Datetime") =>
        /\ jsOut.json = JInt(jsIn.value.n)
        /\ jsOut.json = serialize_Value(Value_Int(jsIn.value.n))

\* C12 as stated: for every epoch value a Datetime inside a Resource renders
\* "data" as a timestamp string while a bare Datetime renders as the raw
\* integer; bare Str, Uri and Binary render as described.
C12_TimestampTextForEveryEpoch ==
    /\ (ResourceSerialized /\ jsIn.value.variant = "Datetime") =>
          /\ Get(jsOut.json, DATA).j = "string"
          /\ IsTimestampText(Get(jsOut.json, DATA).s)
    /\ BareDatetime
    /\ BareEncodings

\* C12: a Datetime inside a Resource renders "data" as a string (the timestamp
\* text for an epoch in the representable range, the text "Invalid timestamp: "
\* followed by the value for one outside it) while a bare Value::Datetime
\* renders as the raw JSON integer, as Value::Int does, for every epoch; a bare
\* Str renders as an object with "data" and with "lang" exactly when a tag is
\* set, a bare Uri as an object with only "data", a bare Binary as null.
C12_TwoEncodings ==
    /\ (ResourceSerialized /\ jsIn.value.variant = "Datetime") =>
          /\ Get(jsOut.json, DATA).j = "string"
          /\ TimestampInRange(jsIn.value.n) => IsTimestampText(Get(jsOut.json, DATA).s)
          /\ ~TimestampInRange(jsIn.value.n) =>
                Get(jsOut.json, DATA).s = InvalidPrefix \o WideText(jsIn.value.n)
    /\ BareDatetime
    /\ BareEncodings
C12_Witness ==
    /\ ValueSerialized
    /\ jsIn.value = Value_Datetime(W(951782400))
    /\ jsOut.json = JInt(W(951782400))

----------------------------------------------------------------------------
(* Serialization of an Individual                                          *)

IndividualReturned == jsOut.op \in {"as_json", "as_json_str"}
OutOfRange(r) == r.value.variant = "Datetime" /\ ~TimestampInRange(r.value.n)
\* the positions (predicate, item) of the Individual's resources
Positions ==
    UNION {{<<i, k>> : k \in 1..Len(jsInd.resources[i][2])} : i \in 1..Len(jsInd.resources)}
ResourceAt(pos) == jsInd.resources[pos[1]][2][pos[2]]
\* the JSON item at a position: the pos[2]-th item of the array under the predicate
ItemAt(json, pos) == Get(json, jsInd.resources[pos[1]][1]).fields[pos[2]][2]
\* a Decimal whose scale Decimal::new rejects
ScaleTooLarge(r) == r.value.variant = "Num" /\ r.value.e < -MAX_SCALE

\* C13: an out-of-range Datetime never makes serialization fail: the Resource
\* is an object whose "data" is the placeholder text holding the value and whose
\* "type" is emitted, and as_json / as_json_str of the enclosing Individual
\* return a value (they unwind only for a Decimal resource that panics).
C13_OutOfRangeDatetimeNeverFails ==
    IndividualReturned =>
        /\ jsOut.json = Panic => \E pos \in Positions : ScaleTooLarge(ResourceAt(pos))
        /\ jsOut.json # Panic =>
              /\ jsOut.json.j = "object"
              /\ jsOut.op = "as_json_str" => jsOut.text # <<>>
              /\ \A pos \in Positions : OutOfRange(ResourceAt(pos)) =>
                    LET item == ItemAt(jsOut.json, pos)
                    IN  /\ item.j = "object"
                        /\ Keys(item) = <<DATA, TYPE>>
                        /\ Get(item, DATA) =
                              JStr(InvalidPrefix \o WideText(ResourceAt(pos).value.n))
                        /\ Get(item, TYPE) = serialize_DataType(ResourceAt(pos).rtype)
C13_Witness ==
    /\ jsOut.op = "as_json_str"
    /\ jsInd.resources =
          <<Field(<<"b">>, <<Res(Value_Datetime(I64Max), "Datetime"),
                            Res(Value_Str(<<"h", "i">>, <<"e", "n">>), "String")>>)>>
    /\ jsOut.text # <<>>
    /\ Get(ItemAt(jsOut.json, <<1, 1>>), DATA) = JStr(InvalidPrefix \o WideText(I64Max))

----------------------------------------------------------------------------
(* Rendering of object terms                                               *)

Quote == <<"\"">>
\* what precedes the object when every triple has subject SubjA and predicate p
ObjectHead == IF fed = <<>> THEN SubjectText(SubjA) \o Indent \o <<"p", " ">> ELSE Comma

\* C19: a named-node object is written as <iri> if the validator accepts it
\* and it starts with "http://", bare if the validator accepts it and it does
\* not, and as a quoted, escaped literal if the validator rejects it, also
\* when it starts with "http://"; a blank-node object is written verbatim.
C19_ObjectRendering ==
    [][Len(fed') = Len(fed) + 1 =>
          LET o == fed'[Len(fed')].object
          IN  /\ (o.kind = "NamedNode" /\ IsValidIri(o.text) /\ StartsWith(o.text, HTTP)) =>
                    Written = ObjectHead \o <<"<">> \o o.text \o <<">">>
              /\ (o.kind = "NamedNode" /\ IsValidIri(o.text) /\ ~StartsWith(o.text, HTTP)) =>
                    Written = ObjectHead \o o.text
              /\ (o.kind = "NamedNode" /\ ~IsValidIri(o.text)) =>
                    Written = ObjectHead \o Quote \o EscapeByRule(o.text) \o Quote
              /\ o.kind = "BlankNode" => Written = ObjectHead \o o.text]_vars
\* a rejected IRI that starts with "http://", then a blank node with a quote
C19_Witness ==
    /\ Len(fed) = 2
    /\ fed[1].object = NamedNode(HTTP \o <<"a", "\"">>)
    /\ fed[2].object = BlankNode(<<"b", " ", "\"">>)
    /\ out = SubjectText(SubjA) \o Indent \o <<"p", " ">>
              \o <<"\"">> \o HTTP \o <<"a", "\\", "\"", "\"">>
              \o Comma \o <<"b", " ", "\"">>

----------------------------------------------------------------------------
(* Failing sink                                                            *)

FormatStep == nFormat' = nFormat + 1
Cursor == <<current_subject, current_subject_type, current_predicate>>

\* C20: a format call in which a write fails returns the error and leaves
\* current_subject, current_subject_type and current_predicate as they were,
\* though part of the triple may have been written; the cursor moves only
\* when the object has been written; a formatter whose first triple failed is
\* still empty and finish() writes no terminator.
C20_FailedFormatKeepsCursor ==
    /\ [][(FormatStep /\ fmtRes' = "Err") =>
             /\ Cursor' = Cursor
             /\ fed' = fed
             /\ StartsWith(out', out)
             /\ sinkCap # Unlimited /\ Len(out') = sinkCap]_vars
    /\ [][(FormatStep /\ fmtRes' # "Err") =>
             /\ fmtRes' = "Ok"
             /\ Len(fed') = Len(fed) + 1
             /\ Cursor' = <<fed'[Len(fed')].subject.text, fed'[Len(fed')].subject.kind,
                            fed'[Len(fed')].predicate>>]_vars
    /\ []((fed = <<>> /\ fmtPhase = "live") => current_subject_type = None)
    /\ [][(FinishStep /\ fed = <<>>) => (out' = out /\ fmtRes' = "OkSink")]_vars
\* the first triple failed after its subject was written; finish added nothing
C20_Witness ==
    /\ fmtPhase = "finished" /\ fmtRes = "OkSink"
    /\ nFormat = 1 /\ fed = <<>> /\ ioFailed /\ prefixCalls = 0
    /\ current_subject_type = None
    /\ Len(out) = sinkCap
    /\ StartsWith(out, SubjectText(SubjA) \o Indent)
====
